---- MODULE Spec2Model ----
(***************************************************************************)
(* ArcIModel (matchzoo/models/arci_model.py): the parameter table, the     *)
(* build() method that assembles the Keras graph, and the backend it       *)
(* stores.  build() is modelled statement by statement, so that parameter  *)
(* assignments can be placed between its reads of the live table.          *)
(***************************************************************************)
EXTENDS Integers, Sequences, FiniteSets, TLC

\* ------------------------------------------------------------------ bounds
MaxBlocks == 2    \* largest num_blocks / per-block sequence length explored
MaxAssign == 1    \* parameter assignments per behaviour
MaxBuilds == 2    \* build() calls per behaviour

\* ------------------------------------------------- values the caller may set
FilterVals == {16, 32}
KernelVals == {3, 5}
PoolVals == {2, 4}
PaddingVals == {"same", "valid", "causal"}
ActivationVals == {"relu", "tanh"}
\* dropout_rate in hundredths (quniform low=0.0, high=0.8, q=0.01)
DropoutVals == {0, 50}

\* inherited parameters (engine.BaseModel): the two text lengths, the
\* embedding output dimension and the width of the output layer
InputShapes == <<8, 4>>
EmbeddingOutputDim == 3
OutputDim == 1

SeqNames ==
  {"left_filters", "left_kernel_sizes", "left_pool_sizes",
   "right_filters", "right_kernel_sizes", "right_pool_sizes"}

Repeat(v, k) == [j \in 1..k |-> v]

\* the per-block sequences a caller assigns: one entry or MaxBlocks entries,
\* either all the same value of S, or all the default d but one
SeqsOf(S, d) ==
  UNION {{[j \in 1..k |-> IF j = pos THEN v ELSE d] : pos \in 1..k, v \in S}
           \cup {[j \in 1..k |-> v] : v \in S} :
           k \in {1, MaxBlocks}}

\* get_default_params: the defaults of lines 36-52
DefaultParams ==
  [num_blocks |-> 1,
   left_filters |-> <<32>>, left_kernel_sizes |-> <<3>>,
   right_filters |-> <<32>>, right_kernel_sizes |-> <<3>>,
   conv_activation_func |-> "relu",
   left_pool_sizes |-> <<2>>, right_pool_sizes |-> <<2>>,
   padding |-> "same", dropout_rate |-> 0]

\* The table after the caller's configuration phase (docstring, lines 15-24):
\* num_blocks = k and every per-block sequence given k entries, padding drawn
\* from its hyper-space (lines 44-48).
ConfiguredParams(k, padding) ==
  [DefaultParams EXCEPT
     !.num_blocks = k, !.padding = padding,
     !.left_filters = Repeat(32, k), !.left_kernel_sizes = Repeat(3, k),
     !.right_filters = Repeat(32, k), !.right_kernel_sizes = Repeat(3, k),
     !.left_pool_sizes = Repeat(2, k), !.right_pool_sizes = Repeat(2, k)]

\* The values params[name] = value may store for each name.
ParamDomain(name) ==
  CASE name = "num_blocks" -> 1..MaxBlocks
    [] name \in {"left_filters", "right_filters"} -> SeqsOf(FilterVals, 32)
    [] name \in {"left_kernel_sizes", "right_kernel_sizes"} ->
         SeqsOf(KernelVals, 3)
    [] name \in {"left_pool_sizes", "right_pool_sizes"} -> SeqsOf(PoolVals, 2)
    [] name = "padding" -> PaddingVals
    [] name = "conv_activation_func" -> ActivationVals
    [] name = "dropout_rate" -> DropoutVals

ParamNames == DOMAIN DefaultParams

\* ------------------------------------------------------------ Keras graph
\* A layer instance; fields a kind does not have are 0 / "".
Layer(kind, name) ==
  [kind |-> kind, name |-> name, filters |-> 0, kernel_size |-> 0,
   padding |-> "", activation |-> "", pool_size |-> 0, rate |-> 0, axis |-> 0]

\* A tensor: the layer instance that produced it, the tensors it was
\* produced from, and its shape without the batch axis.
Tensor(layer, inbound, shape) ==
  [layer |-> layer, inbound |-> inbound, shape |-> shape]

EmptyGraph == [layers |-> <<>>, tensors |-> <<>>]

\* layer(input): a new layer instance applied to one or more tensors
Apply(gr, layer, inbound, shape) ==
  [layers |-> Append(gr.layers, layer),
   tensors |-> Append(gr.tensors, Tensor(Len(gr.layers) + 1, inbound, shape))]

\* an existing layer instance applied to another tensor
Reapply(gr, layerIdx, inbound, shape) ==
  [layers |-> gr.layers,
   tensors |-> Append(gr.tensors, Tensor(layerIdx, inbound, shape))]

Last(gr) == Len(gr.tensors)

\* keras.layers.Conv1D output length: "valid" loses kernel_size - 1 steps,
\* "same" and "causal" keep the length
ConvOutLen(len, kernel_size, padding) ==
  IF padding = "valid" THEN len - kernel_size + 1 ELSE len

\* keras.layers.MaxPooling1D(pool_size): strides = pool_size, padding "valid"
PoolOutLen(len, pool_size) ==
  IF len < pool_size THEN 0 ELSE (len - pool_size) \div pool_size + 1

\* _conv_pool_block: Conv1D then MaxPooling1D on input_; the framework
\* refuses (ValueError) a layer whose output length would not be positive.
ConvPoolBlock(gr, input_, filters, kernel_size, padding, conv_activation_func, pool_size) ==
  LET inLen == gr.tensors[input_].shape[1]
      convLen == ConvOutLen(inLen, kernel_size, padding)
      conv == [Layer("Conv1D", "") EXCEPT
                 !.filters = filters, !.kernel_size = kernel_size,
                 !.padding = padding, !.activation = conv_activation_func]
      g1 == Apply(gr, conv, <<input_>>, <<convLen, filters>>)
      poolLen == PoolOutLen(convLen, pool_size)
      pool == [Layer("MaxPooling1D", "") EXCEPT !.pool_size = pool_size]
      g2 == Apply(g1, pool, <<Last(g1)>>, <<poolLen, filters>>)
  IN IF convLen < 1 \/ poolLen < 1
       THEN [error |-> "ValueError", graph |-> gr, output |-> input_]
       ELSE [error |-> "", graph |-> g2, output |-> Last(g2)]

\* faulty variant: an embedding layer of its own for each input
InputsAndTwoEmbeddings ==
  LET g1 == Apply(EmptyGraph, Layer("Input", "text_left"), <<>>,
                  <<InputShapes[1]>>)
      g2 == Apply(g1, Layer("Input", "text_right"), <<>>, <<InputShapes[2]>>)
      g3 == Apply(g2, Layer("Embedding", ""), <<1>>,
                  <<InputShapes[1], EmbeddingOutputDim>>)
  IN Apply(g3, Layer("Embedding", ""), <<2>>,
           <<InputShapes[2], EmbeddingOutputDim>>)

\* _make_inputs + _make_embedding_layer + the two applications (lines 66-70)
InputsAndEmbedding ==
  LET g1 == Apply(EmptyGraph, Layer("Input", "text_left"), <<>>,
                  <<InputShapes[1]>>)
      g2 == Apply(g1, Layer("Input", "text_right"), <<>>, <<InputShapes[2]>>)
      g3 == Apply(g2, Layer("Embedding", ""), <<1>>,
                  <<InputShapes[1], EmbeddingOutputDim>>)
  IN Reapply(g3, 3, <<2>>, <<InputShapes[2], EmbeddingOutputDim>>)

\* faulty variant: a merge that accepts branches of different widths
ConcatOkAlways(gr, l, r) == TRUE

\* Concatenate(axis=1)([embed_left, embed_right]): every axis but the
\* concatenation axis must agree
ConcatOk(gr, l, r) == gr.tensors[l].shape[2] = gr.tensors[r].shape[2]

\* faulty variant: concatenation along the feature axis
FeatureAxis == 1 + 1

\* the axis of Concatenate (line 90): 1 is the sequence axis, 2 the features
ConcatAxis == 1

Concat(gr, l, r) ==
  LET sl == gr.tensors[l].shape
      sr == gr.tensors[r].shape
  IN Apply(gr, [Layer("Concatenate", "") EXCEPT !.axis = ConcatAxis],
           <<l, r>>,
           IF ConcatAxis = 1 THEN <<sl[1] + sr[1], sl[2]>>
                             ELSE <<sl[1], sl[2] + sr[2]>>)

\* faulty variant: no Dropout layer when the rate is 0
HeadWithoutZeroDropout(gr, l, r, dropout_rate) ==
  LET g1 == Concat(gr, l, r)
      sc == g1.tensors[Last(g1)].shape
      g2 == Apply(g1, Layer("Flatten", ""), <<Last(g1)>>, <<sc[1] * sc[2]>>)
      g3 == IF dropout_rate = 0 THEN g2
            ELSE Apply(g2, [Layer("Dropout", "") EXCEPT !.rate = dropout_rate],
                       <<Last(g2)>>, <<sc[1] * sc[2]>>)
  IN Apply(g3, Layer("Dense", ""), <<Last(g3)>>, <<OutputDim>>)

\* lines 90-95: Concatenate, Flatten, Dropout, output layer
ConcatFlattenDropoutOutput(gr, l, r, dropout_rate) ==
  LET g1 == Concat(gr, l, r)
      sc == g1.tensors[Last(g1)].shape
      g2 == Apply(g1, Layer("Flatten", ""), <<Last(g1)>>, <<sc[1] * sc[2]>>)
      g3 == Apply(g2, [Layer("Dropout", "") EXCEPT !.rate = dropout_rate],
                  <<Last(g2)>>, <<sc[1] * sc[2]>>)
  IN Apply(g3, Layer("Dense", ""), <<Last(g3)>>, <<OutputDim>>)

\* keras.Model(inputs=[input_left, input_right], outputs=x_out)
KerasModel(gr, serial) ==
  [serial |-> serial, layers |-> gr.layers, tensors |-> gr.tensors,
   inputs |-> <<1, 2>>, outputs |-> <<Last(gr)>>]

\* self._backend before the first successful build()
NoBackend ==
  [serial |-> 0, layers |-> <<>>, tensors |-> <<>>, inputs |-> <<>>,
   outputs |-> <<>>]

\* ------------------------------------------------------------------ state
VARIABLES
  params,       \* self._params
  backend,      \* self._backend
  pc,           \* position of the running build(): idle, left, right, tail
  n,            \* range(num_blocks), evaluated once at line 72
  i,            \* the loop index
  graph,        \* layers and tensors created so far by the running build()
  embed_left,   \* local of build(): index of the left branch's tensor
  embed_right,  \* local of build(): index of the right branch's tensor
  result,       \* how the last build() ended: none, ok, IndexError, ValueError
  builds,       \* build() calls so far
  assigns,      \* assignments so far
  seen,         \* history: the tables in force during the last build()
  builtFrom,    \* history: the table at the start of the build() that
                \* produced backend
  prev          \* history: backend and builtFrom before the last successful
                \* build()

vars ==
  <<params, backend, pc, n, i, graph, embed_left, embed_right, result, builds,
    assigns, seen, builtFrom, prev>>

locals == <<n, i, graph, embed_left, embed_right>>

Init ==
  /\ params \in {ConfiguredParams(k, padding) :
                   k \in 1..MaxBlocks, padding \in PaddingVals}
  /\ backend = NoBackend
  /\ pc = "idle"
  /\ n = 0
  /\ i = 0
  /\ graph = EmptyGraph
  /\ embed_left = 0
  /\ embed_right = 0
  /\ result = "none"
  /\ builds = 0
  /\ assigns = 0
  /\ seen = <<>>
  /\ builtFrom = DefaultParams
  /\ prev = [backend |-> NoBackend, builtFrom |-> DefaultParams]

\* params[name] = value (engine.ParamTable.__setitem__): stores the value
\* under an existing name; nothing is validated.
Assign(name, value) ==
  /\ assigns < MaxAssign
  /\ params' = [params EXCEPT ![name] = value]
  /\ assigns' = assigns + 1
  /\ seen' = IF pc = "idle" THEN seen ELSE Append(seen, params')
  /\ UNCHANGED <<backend, pc, locals, result, builds, builtFrom, prev>>

\* the caller serialises configure-then-build
SetParam ==
  /\ pc = "idle"
  /\ \E name \in ParamNames : \E value \in ParamDomain(name) :
       Assign(name, value)

\* an assignment that lands while build() is running
SetParamDuringBuild ==
  /\ pc # "idle"
  /\ \E name \in ParamNames : \E value \in ParamDomain(name) :
       Assign(name, value)

\* faulty variant: a build() that stores what it has assembled when it raises
RaiseStoringPartialGraph(error) ==
  /\ pc' = "idle"
  /\ result' = error
  /\ n' = 0
  /\ i' = 0
  /\ graph' = EmptyGraph
  /\ embed_left' = 0
  /\ embed_right' = 0
  /\ backend' = [serial |-> builds, layers |-> graph.layers,
                 tensors |-> graph.tensors, inputs |-> <<1, 2>>,
                 outputs |-> <<embed_left, embed_right>>]
  /\ UNCHANGED <<params, builds, assigns, seen, builtFrom, prev>>

\* build() ends by raising: the locals are dropped with the frame
Raise(error) ==
  /\ pc' = "idle"
  /\ result' = error
  /\ n' = 0
  /\ i' = 0
  /\ graph' = EmptyGraph
  /\ embed_left' = 0
  /\ embed_right' = 0
  /\ UNCHANGED <<params, backend, builds, assigns, seen, builtFrom, prev>>

\* faulty variant: a loop that stops at the shortest per-block sequence
NumIterationsClamped(p) ==
  LET lens == {Len(p[name]) : name \in SeqNames} \cup {p.num_blocks}
  IN CHOOSE m \in lens : \A x \in lens : m <= x

\* range(self._params['num_blocks']) (line 72), evaluated once
NumIterations(p) == p.num_blocks

\* lines 66-72: inputs, the embedding layer, and range(num_blocks)
BuildStartLocals ==
  /\ pc = "idle"
  /\ builds < MaxBuilds
  /\ builds' = builds + 1
  /\ graph' = InputsAndEmbedding
  /\ embed_left' = 3
  /\ embed_right' = 4
  /\ n' = NumIterations(params)
  /\ i' = 0
  /\ pc' = IF NumIterations(params) > 0 THEN "left" ELSE "tail"
  /\ result' = "none"
  /\ seen' = <<params>>
  /\ UNCHANGED <<backend, assigns, builtFrom, prev>>

\* faulty variant: a build() that cuts every per-block sequence to num_blocks entries
BuildStartTruncating ==
  /\ BuildStartLocals
  /\ params' =
       [name \in ParamNames |->
          IF name \in SeqNames /\ Len(params[name]) > params.num_blocks
            THEN SubSeq(params[name], 1, params.num_blocks)
            ELSE params[name]]

BuildStart ==
  /\ BuildStartLocals
  /\ UNCHANGED params

\* Python sequence indexing seq[idx] with idx >= 0: IndexError past the end
InRange(seq, idx) == idx < Len(seq)

GetItem(seq, idx) == seq[idx + 1]

\* faulty variant: build() working on a copy of the table taken when it started
TableAtStart == seen[1]

\* self._params as build() reads it at lines 75-92: the live table
Table == params

\* the arguments of the left call (lines 75-79), evaluated before the call
LeftInRange(p, idx) ==
  /\ InRange(p.left_filters, idx)
  /\ InRange(p.left_kernel_sizes, idx)
  /\ InRange(p.left_pool_sizes, idx)

LeftBlockArgs(p, idx) ==
  [filters |-> GetItem(p.left_filters, idx),
   kernel_size |-> GetItem(p.left_kernel_sizes, idx),
   padding |-> p.padding,
   conv_activation_func |-> p.conv_activation_func,
   pool_size |-> GetItem(p.left_pool_sizes, idx)]

\* faulty variant: the right call given the left branch's sequences
RightBlockArgsFromLeft(p, idx) ==
  [filters |-> GetItem(p.left_filters, idx),
   kernel_size |-> GetItem(p.right_kernel_sizes, idx),
   padding |-> p.padding,
   conv_activation_func |-> p.conv_activation_func,
   pool_size |-> GetItem(p.right_pool_sizes, idx)]

\* the arguments of the right call (lines 83-87)
RightInRange(p, idx) ==
  /\ InRange(p.right_filters, idx)
  /\ InRange(p.right_kernel_sizes, idx)
  /\ InRange(p.right_pool_sizes, idx)

RightBlockArgs(p, idx) ==
  [filters |-> GetItem(p.right_filters, idx),
   kernel_size |-> GetItem(p.right_kernel_sizes, idx),
   padding |-> p.padding,
   conv_activation_func |-> p.conv_activation_func,
   pool_size |-> GetItem(p.right_pool_sizes, idx)]

CallConvPoolBlock(gr, input_, a) ==
  ConvPoolBlock(gr, input_, a.filters, a.kernel_size, a.padding,
                a.conv_activation_func, a.pool_size)

\* lines 73-80: the left block of iteration i
BuildLeft ==
  /\ pc = "left"
  /\ IF ~LeftInRange(Table, i)
       THEN Raise("IndexError")
       ELSE LET b == CallConvPoolBlock(graph, embed_left,
                                       LeftBlockArgs(Table, i))
            IN IF b.error # ""
                 THEN Raise(b.error)
                 ELSE /\ graph' = b.graph
                      /\ embed_left' = b.output
                      /\ pc' = "right"
                      /\ UNCHANGED <<params, backend, n, i, embed_right,
                                     result, builds, assigns, seen, builtFrom,
                                     prev>>

\* lines 81-88: the right block of iteration i, then the next iteration
BuildRight ==
  /\ pc = "right"
  /\ IF ~RightInRange(Table, i)
       THEN Raise("IndexError")
       ELSE LET b == CallConvPoolBlock(graph, embed_right,
                                       RightBlockArgs(Table, i))
            IN IF b.error # ""
                 THEN Raise(b.error)
                 ELSE /\ graph' = b.graph
                      /\ embed_right' = b.output
                      /\ i' = i + 1
                      /\ pc' = IF i + 1 < n THEN "left" ELSE "tail"
                      /\ UNCHANGED <<params, backend, n, embed_left, result,
                                     builds, assigns, seen, builtFrom, prev>>

\* faulty variant: a build() that keeps a backend it already has
KeepExistingBackend(old, new) == IF old.serial > 0 THEN old ELSE new

\* line 96: self._backend = keras.Model(...)
AssignBackend(old, new) == new

\* lines 90-96: the merge, the head, and the store into self._backend
BuildFinish ==
  /\ pc = "tail"
  /\ IF ~ConcatOk(graph, embed_left, embed_right)
       THEN Raise("ValueError")
       ELSE /\ backend' =
                 AssignBackend(backend,
                   KerasModel(ConcatFlattenDropoutOutput(
                                graph, embed_left, embed_right,
                                Table.dropout_rate), builds))
            /\ prev' = [backend |-> backend, builtFrom |-> builtFrom]
            /\ builtFrom' = seen[1]
            /\ result' = "ok"
            /\ pc' = "idle"
            /\ n' = 0
            /\ i' = 0
            /\ graph' = EmptyGraph
            /\ embed_left' = 0
            /\ embed_right' = 0
            /\ UNCHANGED <<params, builds, assigns, seen>>

Build == BuildStart \/ BuildLeft \/ BuildRight \/ BuildFinish

\* single-threaded use: assignments only between build() calls
Next == SetParam \/ Build

Spec == Init /\ [][Next]_vars

\* assignments may also land between the statements of a running build()
NextConc == SetParam \/ SetParamDuringBuild \/ Build

\* the docstring's configuration: padding left at its default
InitConc ==
  /\ Init
  /\ params.padding = DefaultParams.padding

SpecConc == InitConc /\ [][NextConc]_vars

\* ------------------------------------------------- reading tables and graphs
Errors == {"IndexError", "ValueError"}

\* a build() call has returned or raised, and seen[1] is the table it started on
Finished == pc = "idle" /\ result # "none"

HasBackend == backend.serial > 0

\* every per-block sequence has at least num_blocks entries
LengthInvariant(t) == \A name \in SeqNames : Len(t[name]) >= t.num_blocks

SideOf(t, side) ==
  IF side = "left"
    THEN [filters |-> t.left_filters, kernel_sizes |-> t.left_kernel_sizes,
          pool_sizes |-> t.left_pool_sizes, len |-> InputShapes[1],
          input |-> "text_left"]
    ELSE [filters |-> t.right_filters, kernel_sizes |-> t.right_kernel_sizes,
          pool_sizes |-> t.right_pool_sizes, len |-> InputShapes[2],
          input |-> "text_right"]

\* the sequence length a branch has after its first k blocks, computed from
\* the table alone; 0 as soon as one layer's output length is not positive
RECURSIVE LenAfter(_, _, _)
LenAfter(t, side, k) ==
  IF k = 0 THEN SideOf(t, side).len
  ELSE LET before == LenAfter(t, side, k - 1)
           conv == IF before < 1 THEN 0
                   ELSE ConvOutLen(before, SideOf(t, side).kernel_sizes[k],
                                   t.padding)
       IN IF conv < 1 THEN 0
          ELSE PoolOutLen(conv, SideOf(t, side).pool_sizes[k])

\* the framework accepts every layer of the table's first num_blocks blocks
\* and the merge of the two branches
ShapesFit(t) ==
  /\ LenAfter(t, "left", t.num_blocks) >= 1
  /\ LenAfter(t, "right", t.num_blocks) >= 1
  /\ t.left_filters[t.num_blocks] = t.right_filters[t.num_blocks]

\* the blocks a table has entries for
Present(t, side) ==
  LET sd == SideOf(t, side)
      m == IF Len(sd.filters) < Len(sd.kernel_sizes)
             THEN Len(sd.filters) ELSE Len(sd.kernel_sizes)
      k == IF m < Len(sd.pool_sizes) THEN m ELSE Len(sd.pool_sizes)
  IN IF k < t.num_blocks THEN k ELSE t.num_blocks

TwoInputsOneOutput(g) ==
  /\ Len(g.inputs) = 2
  /\ g.inputs[1] # g.inputs[2]
  /\ \A k \in 1..2 : g.layers[g.tensors[g.inputs[k]].layer].kind = "Input"
  /\ Cardinality({x \in DOMAIN g.layers : g.layers[x].kind = "Input"}) = 2
  /\ Len(g.outputs) = 1

\* C1 as stated: every table that satisfies the length invariant builds, and
\* a short per-block sequence is the only way build() fails.
C1_AnyValidTableBuilds ==
  Finished /\ LengthInvariant(seen[1]) => result = "ok"

\* C1 (amended): build() succeeds exactly on the tables that satisfy the
\* length invariant and whose layers the framework accepts (every
\* convolution and pooling output length positive, the two branches ending
\* with the same number of filters); it then stores a graph with two input
\* tensors and one output tensor.  It fails with IndexError only on a short
\* sequence, and with ValueError otherwise.
C1_BuildSucceedsIffShapesFit ==
  Finished =>
    /\ result \in {"ok"} \cup Errors
    /\ result = "ok" <=> (LengthInvariant(seen[1]) /\ ShapesFit(seen[1]))
    /\ result = "ok" => backend.serial = builds /\ TwoInputsOneOutput(backend)
    /\ result = "IndexError" => ~LengthInvariant(seen[1])
    /\ LengthInvariant(seen[1]) /\ result # "ok" => result = "ValueError"

\* a two-block table whose first-block filters differ between the branches
\* and whose kernels and pools fit has been built
C1_Witness ==
  /\ Finished
  /\ result = "ok"
  /\ seen[1].num_blocks = MaxBlocks
  /\ seen[1].left_filters[1] # seen[1].right_filters[1]
  /\ TwoInputsOneOutput(backend)

\* C2 as stated: a table with a short per-block sequence makes build() raise
\* the index/range error.
C2_ShortSequenceRaisesIndexError ==
  Finished /\ ~LengthInvariant(seen[1]) => result = "IndexError"

\* C2 (amended): a table with a short per-block sequence is accepted by the
\* assignment and rejected only by build(), which never succeeds on it: it
\* raises the index/range error when the framework accepts the blocks the
\* table has entries for, and otherwise the framework's ValueError or the
\* index/range error, whichever statement fails first.
C2_ShortSequenceFailsAtBuild ==
  /\ [](Finished /\ ~LengthInvariant(seen[1]) =>
          /\ result \in Errors
          /\ (/\ LenAfter(seen[1], "left", Present(seen[1], "left")) >= 1
              /\ LenAfter(seen[1], "right", Present(seen[1], "right")) >= 1)
               => result = "IndexError")
  /\ [][params' # params =>
          result' = result /\ backend' = backend /\ pc' = pc]_vars

\* num_blocks = 2 with a one-entry left_filters was assigned without error
\* and build() raised the index/range error
C2_Witness ==
  /\ Finished
  /\ assigns > 0
  /\ seen[1].num_blocks = 2
  /\ Len(seen[1].left_filters) = 1
  /\ result = "IndexError"

\* the tensors a tensor was computed from, itself included
RECURSIVE Ancestors(_, _)
Ancestors(g, t) ==
  {t} \cup UNION {Ancestors(g, g.tensors[t].inbound[k]) :
                    k \in DOMAIN g.tensors[t].inbound}

\* the chain of single-input tensors that ends in t, first to last
RECURSIVE PathTo(_, _)
PathTo(g, t) ==
  IF Len(g.tensors[t].inbound) # 1 THEN <<t>>
  ELSE Append(PathTo(g, g.tensors[t].inbound[1]), t)

LayerOf(g, t) == g.layers[g.tensors[t].layer]

LayersOfKind(g, kind) == {x \in DOMAIN g.layers : g.layers[x].kind = kind}

\* the tensor the Concatenate layer produced
ConcatTensor(g) ==
  CHOOSE t \in DOMAIN g.tensors : LayerOf(g, t).kind = "Concatenate"

\* the last tensor of a branch: what the Concatenate layer takes from it
BranchEnd(g, side) ==
  g.tensors[ConcatTensor(g)].inbound[IF side = "left" THEN 1 ELSE 2]

\* branch `side` of g is input -> embedding -> blocks 0..k-1 of table t, block
\* j configured by the j-th entries of that side's sequences alone
BranchMatches(g, t, side, k) ==
  LET sd == SideOf(t, side)
      path == PathTo(g, BranchEnd(g, side))
  IN /\ Len(path) = 2 + 2 * k
     /\ LayerOf(g, path[1]) = Layer("Input", sd.input)
     /\ LayerOf(g, path[2]) = Layer("Embedding", "")
     /\ \A j \in 1..k :
          /\ LayerOf(g, path[2 * j + 1]) =
               [Layer("Conv1D", "") EXCEPT
                  !.filters = sd.filters[j],
                  !.kernel_size = sd.kernel_sizes[j],
                  !.padding = t.padding,
                  !.activation = t.conv_activation_func]
          /\ LayerOf(g, path[2 * j + 2]) =
               [Layer("MaxPooling1D", "") EXCEPT !.pool_size = sd.pool_sizes[j]]
          /\ g.tensors[path[2 * j + 1]].inbound = <<path[2 * j]>>
          /\ g.tensors[path[2 * j + 2]].inbound = <<path[2 * j + 1]>>

\* g is the graph of table t: both branches, the dropout rate, and no layer
\* beyond the two inputs, the embedding, the blocks and the four-layer head
Corresponds(g, t) ==
  /\ Cardinality(LayersOfKind(g, "Concatenate")) = 1
  /\ LengthInvariant(t)
  /\ BranchMatches(g, t, "left", t.num_blocks)
  /\ BranchMatches(g, t, "right", t.num_blocks)
  /\ \A x \in LayersOfKind(g, "Dropout") : g.layers[x].rate = t.dropout_rate
  /\ Len(g.layers) = 3 + 4 * t.num_blocks + 4

\* C3: every graph build() makes has exactly one embedding layer instance,
\* and that one instance is applied to both input placeholders: the left and
\* the right branch both descend from it.
C3_OneSharedEmbedding ==
  \A g \in {graph, backend} :
    Len(g.tensors) >= 4 =>
      /\ Cardinality(LayersOfKind(g, "Embedding")) = 1
      /\ LET e == CHOOSE x \in DOMAIN g.layers : g.layers[x].kind = "Embedding"
             out == {t \in DOMAIN g.tensors : g.tensors[t].layer = e}
         IN /\ {g.tensors[t].inbound : t \in out} = {<<1>>, <<2>>}
            /\ LayerOf(g, 1).name = "text_left"
            /\ LayerOf(g, 2).name = "text_right"
            /\ g = backend =>
                 /\ g.tensors[PathTo(g, BranchEnd(g, "left"))[2]].layer = e
                 /\ g.tensors[PathTo(g, BranchEnd(g, "right"))[2]].layer = e

\* a stored two-block graph whose branches both start at the embedding layer
C3_Witness ==
  /\ HasBackend
  /\ builtFrom.num_blocks = MaxBlocks
  /\ Len(PathTo(backend, BranchEnd(backend, "left"))) = 2 + 2 * MaxBlocks
  /\ LayerOf(backend, PathTo(backend, BranchEnd(backend, "right"))[2]).kind
       = "Embedding"

\* two tables that agree on every parameter but name
SameExcept(t1, t2, name) ==
  \A x \in ParamNames \ {name} : t1[x] = t2[x]

Shapes(g, ts) == [k \in DOMAIN ts |-> g.tensors[ts[k]].shape]

\* C4: two successive graphs built from tables that differ only in
\* dropout_rate have the same inputs, input shapes and output shape, and
\* differ in nothing but the rate of the one dropout layer.
C4_DropoutRateChangesOnlyTheRate ==
  HasBackend /\ prev.backend.serial > 0
    /\ SameExcept(builtFrom, prev.builtFrom, "dropout_rate") =>
      /\ Len(backend.inputs) = Len(prev.backend.inputs)
      /\ Shapes(backend, backend.inputs)
           = Shapes(prev.backend, prev.backend.inputs)
      /\ Shapes(backend, backend.outputs)
           = Shapes(prev.backend, prev.backend.outputs)
      /\ backend.tensors = prev.backend.tensors
      /\ Cardinality(LayersOfKind(backend, "Dropout")) = 1
      /\ DOMAIN backend.layers = DOMAIN prev.backend.layers
      /\ \A x \in DOMAIN backend.layers :
           backend.layers[x] =
             [prev.backend.layers[x] EXCEPT !.rate = backend.layers[x].rate]

\* two successive graphs of one table, one built with dropout_rate 0 and the
\* other with a positive dropout_rate
C4_Witness ==
  /\ HasBackend
  /\ prev.backend.serial > 0
  /\ SameExcept(builtFrom, prev.builtFrom, "dropout_rate")
  /\ builtFrom.dropout_rate # prev.builtFrom.dropout_rate
  /\ 0 \in {builtFrom.dropout_rate, prev.builtFrom.dropout_rate}

\* C5: the backend is the graph of the table in force at the most recent
\* successful build(): a build() that succeeds replaces the backend with a
\* fresh graph of the table it started on, and rebuilding from an unchanged
\* table gives a structurally identical graph.
C5_BackendIsGraphOfLastBuild ==
  /\ HasBackend => Corresponds(backend, builtFrom)
  /\ Finished /\ result = "ok" =>
       /\ builtFrom = seen[1]
       /\ backend.serial = builds
       /\ backend.serial # prev.backend.serial
  /\ HasBackend /\ prev.backend.serial > 0 /\ builtFrom = prev.builtFrom =>
       /\ backend.layers = prev.backend.layers
       /\ backend.tensors = prev.backend.tensors
       /\ backend.inputs = prev.backend.inputs
       /\ backend.outputs = prev.backend.outputs

\* a second build() has replaced the first graph after the table changed
C5_Witness ==
  /\ Finished
  /\ result = "ok"
  /\ builds = 2
  /\ prev.backend.serial = 1
  /\ builtFrom # prev.builtFrom
  /\ backend.layers # prev.backend.layers

\* two tables that agree on num_blocks, padding, activation, dropout and on
\* the first num_blocks entries of every per-block sequence
SameUsedEntries(t1, t2) ==
  /\ \A x \in ParamNames \ SeqNames : t1[x] = t2[x]
  /\ \A x \in SeqNames : \A j \in 1..t1.num_blocks :
       /\ j <= Len(t1[x])
       /\ j <= Len(t2[x])
       /\ t1[x][j] = t2[x][j]

\* C6: in a stored graph each branch is input -> embedding -> n blocks in
\* index order, block i+1 fed by block i of the same branch and configured by
\* its own side's i-th entries; nothing before the concatenation descends
\* from both inputs; entries at index >= n change nothing.
C6_BranchesAreSeparateChains ==
  HasBackend =>
    /\ BranchMatches(backend, builtFrom, "left", builtFrom.num_blocks)
    /\ BranchMatches(backend, builtFrom, "right", builtFrom.num_blocks)
    /\ Cardinality(LayersOfKind(backend, "Conv1D")) = 2 * builtFrom.num_blocks
    /\ Cardinality(LayersOfKind(backend, "MaxPooling1D"))
         = 2 * builtFrom.num_blocks
    /\ \A t \in 1..(ConcatTensor(backend) - 1) :
         ~({1, 2} \subseteq Ancestors(backend, t))
    /\ 2 \notin Ancestors(backend, BranchEnd(backend, "left"))
    /\ 1 \notin Ancestors(backend, BranchEnd(backend, "right"))
    /\ prev.backend.serial > 0 /\ SameUsedEntries(builtFrom, prev.builtFrom) =>
         /\ backend.layers = prev.backend.layers
         /\ backend.tensors = prev.backend.tensors

\* a stored two-block graph whose blocks all have different filters
C6_Witness ==
  /\ HasBackend
  /\ builtFrom.num_blocks = 2
  /\ builtFrom.left_filters[1] # builtFrom.left_filters[2]
  /\ Len(PathTo(backend, BranchEnd(backend, "left"))) = 6
  /\ Len(PathTo(backend, BranchEnd(backend, "right"))) = 6

\* C7: the head of a stored graph is Concatenate(axis 1) of [left branch,
\* right branch], then Flatten, then Dropout at dropout_rate, then the output
\* layer; the output is the output layer's tensor and the inputs are
\* [left input, right input].
C7_HeadOrder ==
  HasBackend =>
    LET g == backend
        head == PathTo(g, g.outputs[1])
        c == head[1]
        l == g.tensors[c].inbound[1]
        r == g.tensors[c].inbound[2]
    IN /\ Len(g.outputs) = 1
       /\ Len(head) = 4
       /\ LayerOf(g, head[1]) = [Layer("Concatenate", "") EXCEPT !.axis = 1]
       /\ LayerOf(g, head[2]) = Layer("Flatten", "")
       /\ LayerOf(g, head[3]) =
            [Layer("Dropout", "") EXCEPT !.rate = builtFrom.dropout_rate]
       /\ LayerOf(g, head[4]).kind = "Dense"
       /\ Len(g.tensors[c].inbound) = 2
       /\ LayerOf(g, PathTo(g, l)[1]).name = "text_left"
       /\ LayerOf(g, PathTo(g, r)[1]).name = "text_right"
       /\ g.tensors[c].shape =
            <<g.tensors[l].shape[1] + g.tensors[r].shape[1],
              g.tensors[l].shape[2]>>
       /\ g.tensors[head[2]].shape =
            <<g.tensors[c].shape[1] * g.tensors[c].shape[2]>>
       /\ g.tensors[head[3]].shape = g.tensors[head[2]].shape
       /\ Len(g.inputs) = 2
       /\ LayerOf(g, g.inputs[1]).name = "text_left"
       /\ LayerOf(g, g.inputs[2]).name = "text_right"

\* a stored graph whose branches end with different lengths and a positive
\* dropout rate
C7_Witness ==
  /\ HasBackend
  /\ builtFrom.dropout_rate > 0
  /\ backend.tensors[BranchEnd(backend, "left")].shape[1]
       # backend.tensors[BranchEnd(backend, "right")].shape[1]

\* C8: a build() that raises leaves the backend as it was; only the last
\* statement of a build() that succeeds changes it.
C8_FailedBuildKeepsBackend ==
  [][/\ (result' \in Errors \/ pc' # "idle") => backend' = backend
     /\ backend' # backend => pc = "tail" /\ pc' = "idle" /\ result' = "ok"
    ]_vars

\* build() raised the index/range error at the second block while a graph of
\* an earlier build() was stored, and that graph is still the backend
C8_Witness ==
  /\ Finished
  /\ result = "IndexError"
  /\ seen[1].num_blocks = 2
  /\ Present(seen[1], "left") = 1
  /\ HasBackend
  /\ backend.serial < builds
  /\ Corresponds(backend, builtFrom)

\* C9: build() reads num_blocks once and every block's arguments from the
\* table in force when that block is made, with nothing excluding assignments
\* in between; so a build() can store a graph that is the graph of no table
\* that was in force during it.
C9_BlocksReadTheLiveTable ==
  [][LET conv == graph'.layers[Len(graph'.layers) - 1]
         pool == graph'.layers[Len(graph'.layers)]
     IN /\ pc # "idle" => n = seen[1].num_blocks
        /\ pc = "left" /\ pc' = "right" =>
             /\ conv = [Layer("Conv1D", "") EXCEPT
                          !.filters = params.left_filters[i + 1],
                          !.kernel_size = params.left_kernel_sizes[i + 1],
                          !.padding = params.padding,
                          !.activation = params.conv_activation_func]
             /\ pool.pool_size = params.left_pool_sizes[i + 1]
        /\ pc = "right" /\ pc' \in {"left", "tail"} =>
             /\ conv = [Layer("Conv1D", "") EXCEPT
                          !.filters = params.right_filters[i + 1],
                          !.kernel_size = params.right_kernel_sizes[i + 1],
                          !.padding = params.padding,
                          !.activation = params.conv_activation_func]
             /\ pool.pool_size = params.right_pool_sizes[i + 1]
    ]_vars

\* a stored two-block graph that is the graph of none of the tables in force
\* during its build(), which differ in a per-block sequence only and all
\* satisfy the length invariant
C9_Witness ==
  /\ Finished
  /\ result = "ok"
  /\ Len(seen) > 1
  /\ seen[1].num_blocks = 2
  /\ \A x \in ParamNames \ SeqNames : seen[1][x] = seen[Len(seen)][x]
  /\ \A k \in DOMAIN seen : LengthInvariant(seen[k])
  /\ \A k \in DOMAIN seen : ~Corresponds(backend, seen[k])

\* build() raised the index/range error although every table in force during
\* it satisfied the length invariant
C9_IndexErrorOnValidTables ==
  /\ Finished
  /\ result = "IndexError"
  /\ \A k \in DOMAIN seen : LengthInvariant(seen[k])

\* C10: no statement of build() changes the parameter table, whether the
\* call succeeds or raises.
C10_BuildLeavesParams ==
  [][pc # "idle" \/ pc' # "idle" => params' = params]_vars

\* one build() has succeeded and a later one has raised, and the table is
\* still the one the later build() started on
C10_Witness ==
  /\ Finished
  /\ result = "ValueError"
  /\ backend.serial = 1
  /\ builds = 2
  /\ params = seen[1]

====
